---- MODULE Spec2Model ----
(***************************************************************************)
(* Model of checkm/prodigal.py: the two parsers of Prodigal's output.     *)
(*   ProdigalGeneFeatureParser  (__init__, __parseGFF,                    *)
(*                               __buildCodingBaseMask, codingBases)      *)
(*   ProdigalFastaParser        (genePositions)                           *)
(* Text is modelled as sequences of one-character strings, so that        *)
(* split(), int() and str() are computed and not assumed.                 *)
(***************************************************************************)
EXTENDS Integers, Sequences, FiniteSets, TLC

VARIABLES
    pc,               \* position of the caller: which method runs / may run next
    file,             \* the lines read from the input file so far
    recs,             \* ghost: the fields each line of file was written from
    genes,            \* self.genes: seqId -> (geneId -> <<start, end>>)
    lastCodingBase,   \* self.lastCodingBase: seqId -> int
    geneCounter,      \* local of __parseGFF: <<>> while unbound, else <<n>>
    assigned,         \* ghost: the geneId given to each line (<<>> for a comment)
    codingBaseMasks,  \* self.codingBaseMasks: seqId -> sequence of 0/1
    query,            \* arguments of the codingBases call last made
    result,           \* <<>>, or how the last call ended: <<"return", v>> or <<"raise", e>>
    gp                \* the dict genePositions fills and returns

vars == <<pc, file, recs, genes, lastCodingBase, geneCounter, assigned,
          codingBaseMasks, query, result, gp>>

----------------------------------------------------------------------------
(* Bounds of the model *)

MaxLines == 2
MaxCoord == 2
MaxParseLines == 4
MaxFastaLines == 3

----------------------------------------------------------------------------
(* Text helpers *)

TAB == "\t"
NL == "\n"
Whitespace == {" ", "\t", "\n", "\r"}
DigitChars == <<"0", "1", "2", "3", "4", "5", "6", "7", "8", "9">>

EmptyMap == [x \in {} |-> x]

\* d[k] = v
Put(d, k, v) == [x \in DOMAIN d \cup {k} |-> IF x = k THEN v ELSE d[x]]

Max(a, b) == IF a >= b THEN a ELSE b
Min(a, b) == IF a <= b THEN a ELSE b

\* str(n) for n >= 0
RECURSIVE Str(_)
Str(n) == IF n < 10 THEN <<DigitChars[n + 1]>>
          ELSE Str(n \div 10) \o <<DigitChars[(n % 10) + 1]>>

DigitVal(c) == CHOOSE d \in 0..9 : DigitChars[d + 1] = c

RECURSIVE LStrip(_)
LStrip(s) == IF s # <<>> /\ Head(s) \in Whitespace THEN LStrip(Tail(s)) ELSE s

RECURSIVE RStrip(_)
RStrip(s) == IF s # <<>> /\ s[Len(s)] \in Whitespace
             THEN RStrip(SubSeq(s, 1, Len(s) - 1)) ELSE s

RECURSIVE DigitsValue(_, _)
DigitsValue(s, acc) == IF s = <<>> THEN acc
                       ELSE DigitsValue(Tail(s), 10 * acc + DigitVal(Head(s)))

\* int(s) for an unsigned decimal literal, surrounding whitespace ignored
ParseInt(s) == DigitsValue(RStrip(LStrip(s)), 0)

\* s.split(sep): every separator cuts, empty fields are kept
RECURSIVE SplitSep(_, _, _)
SplitSep(s, sep, cur) ==
    IF s = <<>> THEN <<cur>>
    ELSE IF Head(s) = sep THEN <<cur>> \o SplitSep(Tail(s), sep, <<>>)
    ELSE SplitSep(Tail(s), sep, Append(cur, Head(s)))

\* s.split(): cut on runs of whitespace, no empty fields
RECURSIVE SplitWs(_, _)
SplitWs(s, cur) ==
    IF s = <<>> THEN (IF cur = <<>> THEN <<>> ELSE <<cur>>)
    ELSE IF Head(s) \in Whitespace
         THEN (IF cur = <<>> THEN <<>> ELSE <<cur>>) \o SplitWs(Tail(s), <<>>)
    ELSE SplitWs(Tail(s), Append(cur, Head(s)))

----------------------------------------------------------------------------
(* Input: the feature file Prodigal writes *)

SeqIds == {<<"A">>, <<"B">>}

GFFRecords == {<<s, a, b>> : s \in SeqIds, a \in 0..MaxCoord, b \in 0..MaxCoord}

CommentRec == <<"#">>

\* A comment line, or the nine tab-separated columns of a gene line
GFFLine(rec) ==
    IF rec = CommentRec THEN <<"#", "#", "g", "f", "f", NL>>
    ELSE rec[1] \o <<TAB, "P", TAB, "C", "D", "S", TAB>> \o Str(rec[2]) \o <<TAB>>
         \o Str(rec[3]) \o <<TAB, ".", TAB, "+", TAB, "0", TAB, "I", "D", NL>>

ValidRecords == {r \in GFFRecords : r[2] <= r[3]} \cup {CommentRec}

----------------------------------------------------------------------------
(* ProdigalGeneFeatureParser.__parseGFF: the body of the loop, for one line.
   st is <<genes, lastCodingBase, geneCounter, geneId given to the line>>. *)

NextCounter(isNew, counter) == IF isNew THEN 0 ELSE counter[1]

parseGFFLine(st, line) ==
    IF line[1] = "#" THEN <<st[1], st[2], st[3], <<>> >>
    ELSE
      LET lineSplit == SplitSep(line, TAB, <<>>)
          seqId == lineSplit[1]
          isNew == seqId \notin DOMAIN st[1]
          counter == NextCounter(isNew, st[3])
          genes0 == IF isNew THEN Put(st[1], seqId, EmptyMap) ELSE st[1]
          last0 == IF isNew THEN Put(st[2], seqId, 0) ELSE st[2]
          geneId == seqId \o <<"_">> \o Str(counter)
          start == ParseInt(lineSplit[4])
          end == ParseInt(lineSplit[5])
      IN <<Put(genes0, seqId, Put(genes0[seqId], geneId, <<start, end>>)),
           Put(last0, seqId, Max(last0[seqId], end)),
           <<counter + 1>>,
           geneId>>

\* mask[a:b] = 1 on a numpy array (0-based), a, b >= 0: out-of-range part dropped
SliceAssign(mask, a, b) ==
    [i \in 1..Len(mask) |-> IF a <= i - 1 /\ i - 1 < b THEN 1 ELSE mask[i]]

\* np.zeros(self.lastCodingBase[seqId]) with one more entry
MaskLengthPlusOne(last) == last + 1

\* the length of np.zeros(self.lastCodingBase[seqId])
MaskLength(last) == last

RECURSIVE MarkAll(_, _, _)
MarkAll(mask, g, ids) ==
    IF ids = {} THEN mask
    ELSE LET id == CHOOSE x \in ids : TRUE
             pos == g[id]
         IN MarkAll(SliceAssign(mask, pos[1], pos[2] + 1), g, ids \ {id})

\* ProdigalGeneFeatureParser.__buildCodingBaseMask
buildCodingBaseMask(g, last) ==
    MarkAll([i \in 1..MaskLength(last) |-> 0], g, DOMAIN g)

RECURSIVE Sum(_)
Sum(s) == IF s = <<>> THEN 0 ELSE Head(s) + Sum(Tail(s))

\* mask[a:b] for a, b >= 0
Slice(mask, a, b) == SubSeq(mask, Min(a, Len(mask)) + 1, Min(b, Len(mask)))

Return(v) == <<"return", v>>
Raise(e) == <<"raise", e>>

\* the test "seqId not in self.genes" left out
NoGenesNever(g, seqId) == FALSE

\* seqId not in self.genes
NoGenes(g, seqId) == seqId \notin DOMAIN g

\* ProdigalGeneFeatureParser.codingBases; end is <<>> for None, else <<e>>.
\* A dict raises KeyError on a key it does not hold.
codingBases(g, last, masks, seqId, start, end) ==
    IF NoGenes(g, seqId) THEN Return(0)
    ELSE IF end = <<>> /\ seqId \notin DOMAIN last THEN Raise("KeyError")
    ELSE IF seqId \notin DOMAIN masks THEN Raise("KeyError")
    ELSE LET e == IF end = <<>> THEN last[seqId] ELSE end[1]
         IN Return(Sum(Slice(masks[seqId], start, e)))

----------------------------------------------------------------------------
(* ProdigalGeneFeatureParser: construction, then queries *)

InitGFF ==
    /\ pc = "parse"
    /\ file = <<>>
    /\ recs = <<>>
    /\ genes = EmptyMap
    /\ lastCodingBase = EmptyMap
    /\ geneCounter = <<>>
    /\ assigned = <<>>
    /\ codingBaseMasks = EmptyMap
    /\ query = <<>>
    /\ result = <<>>
    /\ gp = EmptyMap

\* __parseGFF: one turn of "for line in open(filename)"
ParseLine(limit) ==
    /\ pc = "parse"
    /\ Len(file) < limit
    /\ \E rec \in ValidRecords :
         LET line == GFFLine(rec)
             st == parseGFFLine(<<genes, lastCodingBase, geneCounter>>, line)
         IN /\ file' = Append(file, line)
            /\ recs' = Append(recs, rec)
            /\ genes' = st[1]
            /\ lastCodingBase' = st[2]
            /\ geneCounter' = st[3]
            /\ assigned' = Append(assigned, st[4])
    /\ UNCHANGED <<pc, codingBaseMasks, query, result, gp>>

\* __parseGFF returns at the end of the file; __init__ sets codingBaseMasks = {}
EndOfFile ==
    /\ pc = "parse"
    /\ pc' = "build"
    /\ codingBaseMasks' = EmptyMap
    /\ UNCHANGED <<file, recs, genes, lastCodingBase, geneCounter, assigned,
                   query, result, gp>>

\* the loop of __init__ left after its first turn
ToBuildFirstOnly(g, masks) == IF masks = EmptyMap THEN DOMAIN g ELSE {}

\* the sequences the loop of __init__ has still to visit
ToBuild(g, masks) == DOMAIN g \ DOMAIN masks

\* __init__: one turn of "for seqId in self.genes" (a dict: any order)
BuildMask ==
    /\ pc = "build"
    /\ \E seqId \in ToBuild(genes, codingBaseMasks) :
         codingBaseMasks' = Put(codingBaseMasks, seqId,
                                buildCodingBaseMask(genes[seqId], lastCodingBase[seqId]))
    /\ UNCHANGED <<pc, file, recs, genes, lastCodingBase, geneCounter, assigned,
                   query, result, gp>>

\* __init__ returns: the parser is constructed
InitReturn ==
    /\ pc = "build"
    /\ ToBuild(genes, codingBaseMasks) = {}
    /\ pc' = "ready"
    /\ UNCHANGED <<file, recs, genes, lastCodingBase, geneCounter, assigned,
                   codingBaseMasks, query, result, gp>>

QueryStarts == 0..(MaxCoord + 1)
QueryEnds == {<<>>} \cup {<<e>> : e \in 0..(MaxCoord + 1)}

\* a call codingBases(seqId, start, end)
CodingBasesCall ==
    /\ pc = "ready"
    /\ \E seqId \in SeqIds, start \in QueryStarts, end \in QueryEnds :
         /\ query' = <<seqId, start, end>>
         /\ result' = codingBases(genes, lastCodingBase, codingBaseMasks,
                                  seqId, start, end)
    /\ pc' = "answered"
    /\ UNCHANGED <<file, recs, genes, lastCodingBase, geneCounter, assigned,
                   codingBaseMasks, gp>>

\* the caller takes the value; the parser can be queried again
CodingBasesReturn ==
    /\ pc = "answered"
    /\ pc' = "ready"
    /\ query' = <<>>
    /\ result' = <<>>
    /\ UNCHANGED <<file, recs, genes, lastCodingBase, geneCounter, assigned,
                   codingBaseMasks, gp>>

Next ==
    \/ ParseLine(MaxLines)
    \/ EndOfFile
    \/ BuildMask
    \/ InitReturn
    \/ CodingBasesCall
    \/ CodingBasesReturn

Spec == InitGFF /\ [][Next]_vars

\* construction alone, on longer files
NextParse ==
    \/ ParseLine(MaxParseLines)
    \/ EndOfFile
    \/ BuildMask
    \/ InitReturn

SpecParse == InitGFF /\ [][NextParse]_vars

----------------------------------------------------------------------------
(* Input: the protein FASTA file Prodigal writes *)

GeneIds == {<<"g", "e", "n", "e", "1">>, <<"g", "2">>}
FastaCoords == {7, 10, 50}

HeaderRecords == {<<g, a, b>> : g \in GeneIds, a \in FastaCoords, b \in FastaCoords}

ResidueRec == <<"residues">>

\* ">id # start # end # strand # note", or a line of residues
FastaLine(rec) ==
    IF rec = ResidueRec THEN <<"M", "K", "V", "*", NL>>
    ELSE <<">">> \o rec[1] \o <<" ", "#", " ">> \o Str(rec[2]) \o <<" ", "#", " ">>
         \o Str(rec[3]) \o <<" ", "#", " ", "1", " ", "#", " ", "n", "o", "t", "e", NL>>

\* gp[geneId] = [startPos, endPos] only when geneId is not yet a key
SetFirst(d, k, v) == IF k \in DOMAIN d THEN d ELSE Put(d, k, v)

\* gp[geneId] = [startPos, endPos]
SetItem(d, k, v) == Put(d, k, v)

\* ProdigalFastaParser.genePositions: the body of the loop, for one line
genePositionsLine(d, line) ==
    IF line[1] = ">"
    THEN LET lineSplit == SplitWs(Tail(line), <<>>)
             geneId == lineSplit[1]
             startPos == ParseInt(lineSplit[3])
             endPos == ParseInt(lineSplit[5])
         IN SetItem(d, geneId, <<startPos, endPos>>)
    ELSE d

InitFasta ==
    /\ pc = "positions"
    /\ file = <<>>
    /\ recs = <<>>
    /\ genes = EmptyMap
    /\ lastCodingBase = EmptyMap
    /\ geneCounter = <<>>
    /\ assigned = <<>>
    /\ codingBaseMasks = EmptyMap
    /\ query = <<>>
    /\ result = <<>>
    /\ gp = EmptyMap

\* genePositions: one turn of "for line in open(filename)"
GenePositionsLine ==
    /\ pc = "positions"
    /\ Len(file) < MaxFastaLines
    /\ \E rec \in HeaderRecords \cup {ResidueRec} :
         LET line == FastaLine(rec)
         IN /\ file' = Append(file, line)
            /\ recs' = Append(recs, rec)
            /\ gp' = genePositionsLine(gp, line)
    /\ UNCHANGED <<pc, genes, lastCodingBase, geneCounter, assigned,
                   codingBaseMasks, query, result>>

\* genePositions: return gp
GenePositionsReturn ==
    /\ pc = "positions"
    /\ pc' = "returned"
    /\ result' = Return(gp)
    /\ UNCHANGED <<file, recs, genes, lastCodingBase, geneCounter, assigned,
                   codingBaseMasks, query, gp>>

NextFasta ==
    \/ GenePositionsLine
    \/ GenePositionsReturn

SpecFasta == InitFasta /\ [][NextFasta]_vars

----------------------------------------------------------------------------
(* What the properties below are stated with *)

Constructed == pc \in {"ready", "answered"}

\* the lines of the feature file that carry a gene of sequence s
LinesOf(s) == {i \in 1..Len(recs) : recs[i] # CommentRec /\ recs[i][1] = s}

\* position p lies in a recorded interval of sequence s
Covered(g, s, p) == \E id \in DOMAIN g[s] : g[s][id][1] <= p /\ p <= g[s][id][2]

Ones(mask) == Cardinality({i \in 1..Len(mask) : mask[i] = 1})

MaxEnd(g, s) == CHOOSE m \in {g[s][id][2] : id \in DOMAIN g[s]} :
                    \A id \in DOMAIN g[s] : g[s][id][2] <= m

\* __parseGFF on a whole file
RECURSIVE parseGFF(_, _)
parseGFF(st, lines) ==
    IF lines = <<>> THEN st
    ELSE parseGFF(parseGFFLine(st, Head(lines)), Tail(lines))

\* the parser __init__ builds from a whole file: <<genes, lastCodingBase, masks>>
Construct(lines) ==
    LET st == parseGFF(<<EmptyMap, EmptyMap, <<>> >>, lines)
    IN <<st[1], st[2],
         [s \in DOMAIN st[1] |-> buildCodingBaseMask(st[1][s], st[2][s])]>>

InsertAt(lines, i, line) ==
    SubSeq(lines, 1, i) \o <<line>> \o SubSeq(lines, i + 1, Len(lines))

----------------------------------------------------------------------------
(* C1: for a sequence with recorded intervals and 0 <= start <= end,
   codingBases(seqId, start, end) is the number of positions p in [start, end)
   that lie in at least one recorded interval [s, e] of the sequence. *)
C1_CountsCoveredPositions ==
    (/\ pc = "answered"
     /\ query[1] \in DOMAIN genes
     /\ query[3] # <<>>
     /\ query[2] <= query[3][1])
    => result = Return(Cardinality({p \in query[2]..(query[3][1] - 1) :
                                      Covered(genes, query[1], p)}))

(* C2: once the parser is constructed, every mask has length
   lastCodingBase + 1 and mask[p] = 1 exactly for the positions p of
   [0, lastCodingBase] that lie in a recorded interval. *)
C2_MaskIsCoverage ==
    Constructed =>
      \A s \in DOMAIN genes :
        /\ Len(codingBaseMasks[s]) = lastCodingBase[s] + 1
        /\ \A p \in 0..lastCodingBase[s] :
             (codingBaseMasks[s][p + 1] = 1) <=> Covered(genes, s, p)

(* C3: the gene index of a line is the number of earlier gene lines of the
   same sequence, whatever lines come in between. *)
C3_IndexCountsPerSequence ==
    \A i \in 1..Len(recs) :
      recs[i] # CommentRec =>
        assigned[i] = recs[i][1] \o <<"_">>
                        \o Str(Cardinality({j \in LinesOf(recs[i][1]) : j < i}))

(* C4: the composite identifiers of the gene lines are pairwise different,
   so a sequence stores as many intervals as it has gene lines. *)
C4_IdentifiersUnique ==
    /\ \A i, j \in 1..Len(recs) :
         (recs[i] # CommentRec /\ recs[j] # CommentRec /\ i # j)
           => assigned[i] # assigned[j]
    /\ \A s \in DOMAIN genes : Cardinality(DOMAIN genes[s]) = Cardinality(LinesOf(s))

(* C5: after parsing, lastCodingBase[seqId] is the largest end coordinate of
   the intervals stored in genes[seqId]. *)
C5_LastCodingBaseIsMaxEnd ==
    pc # "parse" => \A s \in DOMAIN genes : lastCodingBase[s] = MaxEnd(genes, s)

(* C6: codingBases(seqId) with the default range returns the number of ones
   in the whole mask of the sequence. *)
C6_DefaultRangeIsWholeMask ==
    (/\ pc = "answered"
     /\ query[1] \in DOMAIN genes
     /\ query[2] = 0
     /\ query[3] = <<>>)
    => result = Return(Ones(codingBaseMasks[query[1]]))

C6_Witness ==
    /\ pc = "answered"
    /\ query[1] \in DOMAIN genes
    /\ query[2] = 0
    /\ query[3] = <<>>
    /\ Len(codingBaseMasks[query[1]]) = 2
    /\ result = Return(1)

(* C7: for a sequence with no gene line in the file, codingBases returns 0,
   raises nothing and adds no entry for it to genes, lastCodingBase or
   codingBaseMasks. *)
C7_UnknownSequenceIsZero ==
    (pc = "answered" /\ LinesOf(query[1]) = {})
    => /\ result = Return(0)
       /\ query[1] \notin DOMAIN genes
       /\ query[1] \notin DOMAIN lastCodingBase
       /\ query[1] \notin DOMAIN codingBaseMasks

C7_Witness ==
    /\ pc = "answered"
    /\ LinesOf(query[1]) = {}
    /\ genes # EmptyMap
    /\ query[2] = 1
    /\ query[3] = <<>>
    /\ result = Return(0)

\* what a parser just constructed from the lines read answers to the last query
FreshAnswer ==
    LET c == Construct(file)
    IN codingBases(c[1], c[2], c[3], query[1], query[2], query[3])

(* C8: once the parser is constructed there is one mask per sequence of
   genes, no codingBases call changes genes, lastCodingBase or
   codingBaseMasks, and every call returns what a parser just constructed
   from the same file returns, whatever calls were made before. *)
C8_QueriesChangeNothing ==
    /\ [](Constructed => DOMAIN codingBaseMasks = DOMAIN genes)
    /\ [](pc = "answered" => result = FreshAnswer)
    /\ [][Constructed => UNCHANGED <<genes, lastCodingBase, codingBaseMasks>>]_vars

C8_Witness ==
    /\ pc = "answered"
    /\ DOMAIN genes = SeqIds
    /\ DOMAIN codingBaseMasks = SeqIds
    /\ result = Return(2)

\* the header lines that carry gene identifier g
HeadersOf(g) == {i \in 1..Len(recs) : recs[i] # ResidueRec /\ recs[i][1] = g}

LastOf(S) == CHOOSE i \in S : \A j \in S : j <= i

(* C9: genePositions returns one entry per gene identifier found on a header
   line, holding [start, end] of the last header line with that identifier;
   other lines add and change nothing. *)
C9_LastHeaderWins ==
    pc = "returned" =>
      /\ result[1] = "return"
      /\ DOMAIN result[2] = {g \in GeneIds : HeadersOf(g) # {}}
      /\ \A g \in DOMAIN result[2] :
           result[2][g] = <<recs[LastOf(HeadersOf(g))][2], recs[LastOf(HeadersOf(g))][3]>>

C9_Witness ==
    /\ pc = "returned"
    /\ Len(recs) = 3
    /\ recs[1] = <<<<"g", "e", "n", "e", "1">>, 7, 7>>
    /\ recs[2] = ResidueRec
    /\ recs[3] = <<<<"g", "e", "n", "e", "1">>, 10, 50>>
    /\ result = Return((<<"g", "e", "n", "e", "1">> :> <<10, 50>>))

(* C10: one more line whose interval lies within an interval already
   recorded for its sequence, put anywhere in the file, changes no
   codingBases result. *)
C10_ContainedLineChangesNothing ==
    pc = "ready" =>
      \A rec \in ValidRecords \ {CommentRec}, i \in 0..Len(file) :
        (/\ rec[1] \in DOMAIN genes
         /\ \E id \in DOMAIN genes[rec[1]] :
              genes[rec[1]][id][1] <= rec[2] /\ rec[3] <= genes[rec[1]][id][2])
        => LET ext == Construct(InsertAt(file, i, GFFLine(rec)))
           IN \A s \in SeqIds, start \in QueryStarts, end \in QueryEnds :
                codingBases(ext[1], ext[2], ext[3], s, start, end)
                  = codingBases(genes, lastCodingBase, codingBaseMasks, s, start, end)

====
